---- MODULE Spec2Model ----
(***************************************************************************)
(* A model of pygobject-templatemeta: the GtkBuilder template parser       *)
(* (template.py) and the metaclass that loads, registers and binds a       *)
(* template (meta.py).                                                     *)
(*                                                                         *)
(* An XML document is a sequence of elements in document order; the first  *)
(* one is the root element.  An element is a tag and a map of the          *)
(* attributes it carries.  Python's None is the string "None"; the         *)
(* sentinel MISSING of template.py is the string "MISSING"; Python's False *)
(* is the string "False" (XML attribute values are strings).               *)
(***************************************************************************)
EXTENDS Integers, Sequences, FiniteSets, TLC

VARIABLES doc, tplS, tplB, env, cls, inst, classes

vars == <<doc, tplS, tplB, env, cls, inst, classes>>

\* ------------------------------------------------------------------ bounds

\* The largest number of elements below the root of a generated document.
MaxLen == 3

\* ------------------------------------------------------------- basic values

None == "None"
MISSING == "MISSING"
False == "False"

\* The state of a result that has not been computed yet.
NotRun == [kind |-> "none"]

Range(s) == {s[i] : i \in DOMAIN s}

\* lxml: element.get(name, default)
Get(element, name, default) ==
    IF name \in DOMAIN element.attrs THEN element.attrs[name] ELSE default

El(tag, attrs) == [tag |-> tag, attrs |-> attrs]

NoAttrs == [n \in {} |-> None]

\* ------------------------------------------------------ dict (insertion order)

\* A Python dict: a sequence of entries with distinct keys, in the order the
\* keys were first inserted.
EmptyDict == <<>>

Keys(d) == {d[i].key : i \in DOMAIN d}

HasKey(d, k) == \E i \in DOMAIN d : d[i].key = k

Lookup(d, k) == d[CHOOSE i \in DOMAIN d : d[i].key = k].value

\* d[k] = v
DictSet(d, k, v) ==
    IF HasKey(d, k)
    THEN [i \in DOMAIN d |-> IF d[i].key = k THEN [key |-> k, value |-> v] ELSE d[i]]
    ELSE Append(d, [key |-> k, value |-> v])

\* d.values()
Values(d) == [i \in DOMAIN d |-> d[i].value]

\* ------------------------------------------------------------ element records

Field(field_, name, required, default) ==
    [field |-> field_, name |-> name, required |-> required, default |-> default]

SignalFields ==
    << Field("name", None, TRUE, MISSING),
       Field("handler", None, TRUE, MISSING),
       Field("object", None, FALSE, None),
       Field("swapped", None, FALSE, False),
       Field("after", None, FALSE, False) >>

ClosureFields ==
    << Field("function", None, TRUE, MISSING),
       Field("type_", "type", TRUE, MISSING) >>

ObjectFields ==
    << Field("type_name", "class", TRUE, MISSING),
       Field("id_", "id", FALSE, None),
       Field("name", None, FALSE, None),
       Field("internal", None, FALSE, False) >>

MenuFields ==
    << Field("id_", "id", FALSE, None),
       Field("domain", None, FALSE, None) >>

SignalTags == <<"signal">>
ClosureTags == <<"closure">>
ObjectTags == <<"object">>
MenuTags == <<"menu", "submenu", "section">>

\* A slip: the `required` flag is never honoured.
get_attr_required_never(field_) == FALSE

get_attr_required(field_) == field_.required

get_attr_name(field_) == IF field_.name # None THEN field_.name ELSE field_.field

\* The first field, in declaration order, that is required and absent; 0 if none.
FirstMissing(fields, element) ==
    LET bad == {i \in DOMAIN fields :
                    /\ Get(element, get_attr_name(fields[i]), MISSING) = MISSING
                    /\ get_attr_required(fields[i])}
    IN IF bad = {} THEN 0 ELSE CHOOSE i \in bad : \A j \in bad : i <= j

get_attributes(fields, element) ==
    LET m == FirstMissing(fields, element) IN
    IF m # 0
    THEN [kind |-> "AttributeError", arg |-> get_attr_name(fields[m])]
    ELSE [kind |-> "ok",
          attributes |->
            [n \in {fields[i].field : i \in DOMAIN fields} |->
                LET f == fields[CHOOSE i \in DOMAIN fields : fields[i].field = n]
                    value == Get(element, get_attr_name(f), MISSING)
                IN IF value = MISSING THEN f.default ELSE value]]

\* BaseElement.__init__: every attribute handed over is a declared field.  A
\* required one still MISSING raises; another one still MISSING takes the
\* field's default (and reads as MISSING when the field has none).  The record
\* keeps the position of its XML element.
BaseElement_init(fields, attributes, pos) ==
    LET bad == {i \in DOMAIN fields :
                    /\ get_attr_required(fields[i])
                    /\ attributes[fields[i].field] = MISSING}
    IN IF bad # {}
       THEN [kind |-> "AttributeError",
             arg |-> get_attr_name(fields[CHOOSE i \in bad : \A j \in bad : i <= j])]
       ELSE [kind |-> "ok",
             obj |-> [n \in DOMAIN attributes |->
                        IF attributes[n] = MISSING
                        THEN fields[CHOOSE i \in DOMAIN fields : fields[i].field = n].default
                        ELSE attributes[n]]
                     @@ ("element" :> pos)]

from_element(fields, tree, pos) ==
    LET a == get_attributes(fields, tree[pos]) IN
    IF a.kind # "ok" THEN a ELSE BaseElement_init(fields, a.attributes, pos)

\* A slip: the root element is matched too ('//tag' for './/tag').
findall_self(tree, tag) ==
    SelectSeq([i \in 1..Len(tree) |-> i], LAMBDA i : tree[i].tag = tag)

\* tree.findall('.//tag'): the descendants of the root with the tag, in
\* document order.  The root itself is not a descendant.
findall(tree, tag) ==
    SelectSeq([i \in 1..Len(tree) |-> i], LAMBDA i : i > 1 /\ tree[i].tag = tag)

RECURSIVE find_elements(_, _)
find_elements(tags, tree) ==
    IF tags = <<>> THEN <<>>
    ELSE findall(tree, Head(tags)) \o find_elements(Tail(tags), tree)

RECURSIVE parse_loop(_, _, _, _, _, _)
parse_loop(fields, tree, key_attr, found, i, elements) ==
    IF i > Len(found) THEN [kind |-> "ok", elements |-> elements]
    ELSE LET r == from_element(fields, tree, found[i]) IN
         IF r.kind # "ok" THEN r
         ELSE IF r.obj[key_attr] = None
              THEN parse_loop(fields, tree, key_attr, found, i + 1, elements)
              ELSE parse_loop(fields, tree, key_attr, found, i + 1,
                              DictSet(elements, r.obj[key_attr], r.obj))

parse_elements(fields, tags, tree, key_attr) ==
    parse_loop(fields, tree, key_attr, find_elements(tags, tree), 1, EmptyDict)

\* ---------------------------------------------------------------- type registry

\* GObject.type_from_name over the toolkit's registry: a type with a Python
\* type, a type without one, and no type for any other name.
NoGType == [gtype |-> None]

type_from_name(name) ==
    IF name = "GtkWidget" THEN [gtype |-> "GtkWidget", pytype |-> "Gtk.Widget"]
    ELSE IF name = "GtkNoPy" THEN [gtype |-> "GtkNoPy", pytype |-> None]
    ELSE NoGType

\* ------------------------------------------------------------------- Template

Error(kind, arg) == [kind |-> kind, arg |-> arg]

\* tree.find('.//template'): the first descendant <template>, 0 if there is none.
find_template(tree) ==
    LET t == findall(tree, "template") IN IF t = <<>> THEN 0 ELSE Head(t)

MakeTemplate(tree, class_name, parent_type) ==
    LET signals == parse_elements(SignalFields, SignalTags, tree, "handler") IN
    IF signals.kind # "ok" THEN signals ELSE
    LET closures == parse_elements(ClosureFields, ClosureTags, tree, "function") IN
    IF closures.kind # "ok" THEN closures ELSE
    LET children == parse_elements(ObjectFields, ObjectTags, tree, "id_") IN
    IF children.kind # "ok" THEN children ELSE
    LET menus == parse_elements(MenuFields, MenuTags, tree, "id_") IN
    IF menus.kind # "ok" THEN menus ELSE
    [kind |-> "Template",
     class_name |-> class_name,
     parent_type |-> parent_type,
     signals |-> signals.elements,
     closures |-> closures.elements,
     children |-> children.elements,
     menus |-> menus.elements,
     template |-> tree]

\* A slip: the parent attribute is checked before the class attribute.
from_element_tree_parent_first(tree) ==
    LET pos == find_template(tree) IN
    IF pos = 0 THEN Error("KeyError", "template") ELSE
    LET parent == Get(tree[pos], "parent", None) IN
    IF parent = None THEN Error("AttributeError", "parent") ELSE
    LET class_name == Get(tree[pos], "class", None) IN
    IF class_name = None THEN Error("AttributeError", "class") ELSE
    LET parent_type == type_from_name(parent) IN
    IF parent_type = NoGType THEN Error("RuntimeError", "unresolved gtype") ELSE
    IF "pytype" \notin DOMAIN parent_type \/ parent_type.pytype = None
    THEN Error("RuntimeError", "unknown python type")
    ELSE MakeTemplate(tree, class_name, parent_type.pytype)

from_element_tree(tree) ==
    LET pos == find_template(tree) IN
    IF pos = 0 THEN Error("KeyError", "template") ELSE
    LET class_name == Get(tree[pos], "class", None) IN
    IF class_name = None THEN Error("AttributeError", "class") ELSE
    LET parent == Get(tree[pos], "parent", None) IN
    IF parent = None THEN Error("AttributeError", "parent") ELSE
    LET parent_type == type_from_name(parent) IN
    IF parent_type = NoGType THEN Error("RuntimeError", "unresolved gtype") ELSE
    IF "pytype" \notin DOMAIN parent_type \/ parent_type.pytype = None
    THEN Error("RuntimeError", "unknown python type")
    ELSE MakeTemplate(tree, class_name, parent_type.pytype)

\* lxml's ET.fromstring on a text: a str that carries an XML encoding
\* declaration is refused with ValueError; bytes, and a str without the
\* declaration, give the element tree.
ET_fromstring(form, text) ==
    IF form = "str" /\ text.decl
    THEN Error("ValueError", "Unicode strings with encoding declaration")
    ELSE [kind |-> "ok", tree |-> text.elems]

from_string(form, text) ==
    LET t == ET_fromstring(form, text) IN
    IF t.kind # "ok" THEN t ELSE from_element_tree(t.tree)

\* GLib.Bytes.get_data() is the bytes of the text.
from_bytes(text) ==
    LET t == ET_fromstring("bytes", text) IN
    IF t.kind # "ok" THEN t ELSE from_element_tree(t.tree)

\* ------------------------------------------------------------- load_template

\* A keyword argument that was not given.
ABSENT == "ABSENT"

\* The text a template source holds: the template_string keyword's value "S1"
\* is the text `doc`; every other source holds a small template of its own,
\* whose class is named after the source.
DocNamed(token) ==
    [decl |-> TRUE,
     elems |-> << El("interface", NoAttrs),
                  El("template", ("class" :> token) @@ ("parent" :> "GtkWidget")) >>]

TextOf(token) == IF token = "S1" THEN doc ELSE DocNamed(token)

\* kwargs.pop(key, default)
pop(kwargs, key, default) == IF kwargs[key] # ABSENT THEN kwargs[key] ELSE default

\* Python truth of a str | None
Truthy(v) == v \notin {None, ""}

\* utils.validate_resource_path: the resource paths used are well formed.
validate_resource_path(path) == path \in {"/r1", "/r0"}

\* The filename-convention search in the module's directory: the file found,
\* or ValueError when there is none.
auto_discover(auto) ==
    IF auto THEN [kind |-> "ok", bytes |-> TextOf("auto")]
    ELSE Error("ValueError", "No template found")

\* The bytes load_template parses: from the string, else the resource, else
\* the path, else auto-discovery.  `attrs` are the class attributes
\* __template_string__, __template_resource__ and __template_path__.
template_bytes(kwargs, attrs, auto) ==
    LET template_string == pop(kwargs, "template_string", attrs.template_string) IN
    IF Truthy(template_string)
    THEN [kind |-> "ok", bytes |-> TextOf(template_string)]
    ELSE
    LET template_resource == pop(kwargs, "template_resource", attrs.template_resource) IN
    IF Truthy(template_resource)
    THEN IF validate_resource_path(template_resource)
         THEN [kind |-> "ok", bytes |-> TextOf(template_resource)]
         ELSE Error("ValueError", "invalid resource path")
    ELSE
    LET template_path == pop(kwargs, "template_path", attrs.template_path) IN
    IF Truthy(template_path)
    THEN [kind |-> "ok", bytes |-> TextOf(template_path)]
    ELSE auto_discover(auto)

\* TemplateMeta.load_template.  `inherited` is the __template__ the new class
\* sees through its bases (NotRun when hasattr(cls, '__template__') is false).
load_template(inherited, kwargs, attrs, auto) ==
    IF inherited.kind = "Template" THEN inherited
    ELSE LET b == template_bytes(kwargs, attrs, auto) IN
         IF b.kind # "ok" THEN b ELSE from_bytes(b.bytes)

\* ---------------------------------------------------------- register_template

RECURSIVE bind_menus(_, _, _)
bind_menus(element_list, i, bound_widgets) ==
    IF i > Len(element_list) THEN [kind |-> "ok", bound_widgets |-> bound_widgets]
    ELSE LET element == element_list[i] IN
         IF element.id_ = None \/ HasKey(bound_widgets, element.id_)
         THEN bind_menus(element_list, i + 1, bound_widgets)
         ELSE bind_menus(element_list, i + 1,
                         DictSet(bound_widgets, element.id_, element))

\* element.name or element.id_
element_key_of(element) == IF Truthy(element.name) THEN element.name ELSE element.id_

\* bound_widgets[element_key] = element, with element.name set to the key
bind_child_entry(bound_widgets, element) ==
    DictSet(bound_widgets, element_key_of(element),
            [element EXCEPT !.name = element_key_of(element)])

\* bind_child assigns element.name on the records the template holds.
named_children(children) ==
    [i \in DOMAIN children |->
        [key |-> children[i].key,
         value |-> [children[i].value EXCEPT !.name = element_key_of(children[i].value)]]]

RECURSIVE bind_children(_, _, _)
bind_children(element_list, i, bound_widgets) ==
    IF i > Len(element_list) THEN [kind |-> "ok", bound_widgets |-> bound_widgets]
    ELSE LET element == element_list[i] IN
         IF HasKey(bound_widgets, element_key_of(element))
         THEN Error("KeyError", "Duplicate widget ID")
         ELSE bind_children(element_list, i + 1, bind_child_entry(bound_widgets, element))

\* 'handler' for a SignalElement, 'function' for a ClosureElement
method_of(element) ==
    IF "handler" \in DOMAIN element THEN element.handler ELSE element.function

RECURSIVE bind_callbacks(_, _, _, _)
bind_callbacks(element_list, i, class_attrs, bound_methods) ==
    IF i > Len(element_list) THEN bound_methods
    ELSE LET element == element_list[i]
             method == method_of(element)
         IN IF HasKey(bound_methods, method) \/ method \notin class_attrs
            THEN bind_callbacks(element_list, i + 1, class_attrs, bound_methods)
            ELSE bind_callbacks(element_list, i + 1, class_attrs,
                                DictSet(bound_methods, method, element))

\* register_template(cls): the class after registration, or the error raised.
\* `class_attrs` are the names hasattr(cls, name) is true for.
register_template(template, class_attrs, Gtk_version) ==
    LET menus == bind_menus(Values(template.menus), 1, EmptyDict)
        children == bind_children(Values(template.children), 1, menus.bound_widgets)
    IN IF children.kind # "ok" THEN children
       ELSE IF Gtk_version # "4.0"
       THEN Error("NotImplementedError", "Gtk is unsupported")
       ELSE [kind |-> "class",
             template |-> [template EXCEPT !.children = named_children(template.children)],
             methods |-> bind_callbacks(Values(template.signals) \o Values(template.closures),
                                        1, class_attrs, EmptyDict),
             widgets |-> children.bound_widgets]

\* The class statement: TemplateMeta.__new__ (load_template) and then
\* TemplateMeta.__init__ (set_template, register_template).
create_class(inherited, kwargs, attrs, auto, class_attrs, Gtk_version) ==
    LET t == load_template(inherited, kwargs, attrs, auto) IN
    IF t.kind # "Template" THEN t
    ELSE register_template(t, class_attrs, Gtk_version)

\* -------------------------------------------------------------- init_template

\* The widget the toolkit built for an id.
Child(id) == [child |-> id]

\* A slip: the child is stored under the element's id, not under its key.
RECURSIVE set_children_by_id(_, _, _, _)
set_children_by_id(widgets, i, built, attrs) ==
    IF i > Len(widgets) THEN attrs
    ELSE IF widgets[i].value.id_ \in built
         THEN set_children_by_id(widgets, i + 1, built,
                                 (widgets[i].value.id_ :> Child(widgets[i].value.id_)) @@ attrs)
         ELSE set_children_by_id(widgets, i + 1, built, attrs)

RECURSIVE set_children(_, _, _, _)
set_children(widgets, i, built, attrs) ==
    IF i > Len(widgets) THEN attrs
    ELSE IF widgets[i].value.id_ \in built
         THEN set_children(widgets, i + 1, built,
                           (widgets[i].key :> Child(widgets[i].value.id_)) @@ attrs)
         ELSE set_children(widgets, i + 1, built, attrs)

\* init_template(self, cls, base_init_template).  The toolkit's own
\* init_template either raises or builds the template; `built` are the ids
\* get_template_child then returns a child for.  The builder asks the scope
\* for a closure per bound method, which fills __template_handlers__.
init_template(class, built, base_ok) ==
    IF ~base_ok THEN Error("GLib.Error", "base init_template")
    ELSE [kind |-> "instance",
          built |-> built,
          handlers |-> Keys(class.methods),
          attrs |-> set_children(class.widgets, 1, built, NoAttrs)]

\* ------------------------------------------------------ generated documents

BoundedSeq(S, n) == UNION {[1..k -> S] : k \in 0..n}

TemplateOk == El("template", ("class" :> "TemplateTest") @@ ("parent" :> "GtkWidget"))
TemplateBare == El("template", NoAttrs)
TemplateNoParent == El("template", ("class" :> "TemplateTest"))
TemplateUnresolved == El("template", ("class" :> "TemplateTest") @@ ("parent" :> "Bogus"))
TemplateNoPy == El("template", ("class" :> "TemplateTest") @@ ("parent" :> "GtkNoPy"))

Interface == El("interface", NoAttrs)

\* The elements below the root of the documents the parser is run on.
ParseElems ==
    { TemplateOk, TemplateBare, TemplateNoParent, TemplateUnresolved, TemplateNoPy,
      El("object", ("class" :> "GtkButton") @@ ("id" :> "a")),
      El("object", ("class" :> "GtkLabel") @@ ("id" :> "a") @@ ("internal" :> "true")),
      El("object", ("class" :> "GtkButton")),
      El("object", ("id" :> "b")),
      El("signal", ("name" :> "notify") @@ ("handler" :> "h") @@ ("swapped" :> "true")),
      El("signal", ("name" :> "notify")),
      El("closure", ("function" :> "h")),
      El("menu", ("id" :> "m")) }

\* The root elements of those documents.
ParseRoots ==
    { Interface, TemplateOk,
      El("object", ("class" :> "GtkBox") @@ ("id" :> "r")),
      El("signal", ("name" :> "notify")) }

ParseDocs ==
    [decl : BOOLEAN,
     elems : {<<r>> \o b : r \in ParseRoots, b \in BoundedSeq(ParseElems, MaxLen)}]

\* ------------------------------------------------------------- parser actions

\* Template.from_string(text), text a str or (as the tests pass it) bytes.
FromString(form) ==
    /\ tplS' = [kind |-> "done", form |-> form, result |-> from_string(form, doc)]
    /\ UNCHANGED <<doc, tplB, env, cls, inst, classes>>

\* Template.from_bytes(GLib.Bytes(text))
FromBytes ==
    /\ tplB' = [kind |-> "done", form |-> "bytes", result |-> from_bytes(doc)]
    /\ UNCHANGED <<doc, tplS, env, cls, inst, classes>>

InitParse ==
    /\ doc \in ParseDocs
    /\ tplS = NotRun
    /\ tplB = NotRun
    /\ env = NotRun
    /\ cls = NotRun
    /\ inst = NotRun
    /\ classes = <<>>

NextParse ==
    \/ \E form \in {"str", "bytes"} : FromString(form)
    \/ FromBytes

SpecParse == InitParse /\ [][NextParse]_vars

\* ------------------------------------------------------- parser: properties

\* The results of from_element_tree: those of the entry points that got a tree.
Parsed ==
    {x.result : x \in {y \in {tplS, tplB} : y.kind = "done"}} \
        {Error("ValueError", "Unicode strings with encoding declaration")}

Has(element, name) == name \in DOMAIN element.attrs

Below(tree) == 2..Len(tree)

Anywhere(tree) == 1..Len(tree)

\* The children map is keyed by the ids of the <object> elements at `where`.
ChildrenKeyedById(t, tree, where) ==
    LET objs == {i \in where : tree[i].tag = "object"} IN
    /\ Keys(t.children) = {tree[i].attrs["id"] : i \in {j \in objs : Has(tree[j], "id")}}
    /\ \A k \in Keys(t.children) :
          /\ Lookup(t.children, k).id_ = k
          /\ \E i \in objs : /\ Has(tree[i], "id") /\ tree[i].attrs["id"] = k
                             /\ Has(tree[i], "class")
                             /\ Lookup(t.children, k).type_name = tree[i].attrs["class"]

HeaderFrom(t, tree, where) ==
    \E i \in where :
        /\ tree[i].tag = "template"
        /\ Has(tree[i], "class") /\ t.class_name = tree[i].attrs["class"]
        /\ Has(tree[i], "parent")
        /\ "pytype" \in DOMAIN type_from_name(tree[i].attrs["parent"])
        /\ t.parent_type = type_from_name(tree[i].attrs["parent"]).pytype

\* The first <template> below the root, 0 if there is none.
FirstTemplate(tree) ==
    LET ts == {i \in Below(tree) : tree[i].tag = "template"} IN
    IF ts = {} THEN 0 ELSE CHOOSE i \in ts : \A j \in ts : i <= j

\* C1 as stated: in every parsed Template the children map is keyed by the ids
\* of all <object> elements of the document that carry an id, each entry has
\* that id and the class of such an element, and class_name and parent_type
\* come from the <template> element.
C1_ChildrenKeyedByEveryObjectId ==
    \A t \in Parsed : t.kind = "Template" =>
        /\ ChildrenKeyedById(t, doc.elems, Anywhere(doc.elems))
        /\ HeaderFrom(t, doc.elems, Anywhere(doc.elems))

\* C1 amended: the same, over the <object> elements below the root element
\* and the first <template> element below it; the root element itself is
\* never looked at.
C1_ChildrenKeyedByDescendantObjectId ==
    \A t \in Parsed : t.kind = "Template" =>
        /\ ChildrenKeyedById(t, doc.elems, Below(doc.elems))
        /\ HeaderFrom(t, doc.elems, {FirstTemplate(doc.elems)} \ {0})

C1_Witness ==
    \E t \in Parsed :
        /\ t.kind = "Template"
        /\ Keys(t.children) # {}
        /\ doc.elems[1].tag = "object" /\ Has(doc.elems[1], "id")
        /\ \E i \in Below(doc.elems) :
              doc.elems[i].tag = "object" /\ ~Has(doc.elems[i], "id")

SameTemplate(a, b) ==
    /\ a.kind = b.kind
    /\ a.kind = "Template" =>
          /\ a.class_name = b.class_name
          /\ a.parent_type = b.parent_type
          /\ a.signals = b.signals
          /\ a.closures = b.closures
          /\ a.children = b.children
          /\ a.menus = b.menus

\* C2: from_string and from_bytes, applied to the same content, raise the same
\* kind of error or return equal Templates.
C2_EntryPointsEquivalent ==
    (tplS.kind = "done" /\ tplB.kind = "done") => SameTemplate(tplS.result, tplB.result)

HeaderChecks(tree) ==
    LET pos == FirstTemplate(tree) IN
    IF pos = 0 THEN "no template"
    ELSE IF ~Has(tree[pos], "class") THEN "no class"
    ELSE IF ~Has(tree[pos], "parent") THEN "no parent"
    ELSE IF type_from_name(tree[pos].attrs["parent"]) = NoGType THEN "unresolved"
    ELSE IF type_from_name(tree[pos].attrs["parent"]).pytype = None THEN "no pytype"
    ELSE "pass"

\* C7: from_element_tree returns a Template only when the header passes all
\* five checks, and otherwise raises the error of the first check that fails,
\* in the order template, class, parent, gtype, pytype, whatever the other
\* elements of the tree are (none of them is parsed before the checks pass).
C7_HeaderChecksInOrder ==
    \A r \in Parsed :
        LET h == HeaderChecks(doc.elems) IN
        /\ r.kind = "Template" => h = "pass"
        /\ h = "no template" => r = Error("KeyError", "template")
        /\ h = "no class" => r = Error("AttributeError", "class")
        /\ h = "no parent" => r = Error("AttributeError", "parent")
        /\ h = "unresolved" => r = Error("RuntimeError", "unresolved gtype")
        /\ h = "no pytype" => r = Error("RuntimeError", "unknown python type")

BadElement(e) ==
    \/ e.tag = "signal" /\ (~Has(e, "name") \/ ~Has(e, "handler"))
    \/ e.tag = "closure" /\ (~Has(e, "function") \/ ~Has(e, "type"))
    \/ e.tag = "object" /\ ~Has(e, "class")

C7_Witness ==
    \E r \in Parsed :
        /\ r = Error("RuntimeError", "unknown python type")
        /\ \E i \in Below(doc.elems) : BadElement(doc.elems[i])

\* The XML attribute a field of an element record is read from.
C8_Attr(field_) ==
    IF field_ = "type_name" THEN "class"
    ELSE IF field_ = "id_" THEN "id"
    ELSE IF field_ = "type_" THEN "type"
    ELSE field_

C8_Default(attr) == IF attr \in {"swapped", "after", "internal"} THEN False ELSE None

\* Every field of every element record of the Template holds the XML value of
\* its attribute, or the declared default when the attribute is absent.
C8_ValuesAndDefaults(t, tree) ==
    \A d \in {t.signals, t.closures, t.children, t.menus} :
        \A v \in Range(Values(d)) :
            \A f \in DOMAIN v \ {"element"} :
                v[f] = IF Has(tree[v.element], C8_Attr(f))
                       THEN tree[v.element].attrs[C8_Attr(f)]
                       ELSE C8_Default(C8_Attr(f))

\* C8 as stated: a <signal>, <closure> or <object> lacking a required
\* attribute anywhere in the document makes parsing raise AttributeError, and
\* a parsed Template's records hold the XML values and the declared defaults.
C8_RequiredAnywhere ==
    \A r \in Parsed :
        /\ (\E i \in Anywhere(doc.elems) : BadElement(doc.elems[i]))
              => r.kind = "AttributeError"
        /\ r.kind = "Template" => C8_ValuesAndDefaults(r, doc.elems)

\* C8 amended: when the <template> header passes the five checks, a <signal>,
\* <closure> or <object> below the root element lacking a required attribute
\* makes parsing raise AttributeError; a parsed Template's records hold the
\* XML values and the declared defaults.
C8_RequiredBelowRootAfterHeader ==
    \A r \in Parsed :
        /\ (/\ HeaderChecks(doc.elems) = "pass"
            /\ \E i \in Below(doc.elems) : BadElement(doc.elems[i]))
              => r.kind = "AttributeError"
        /\ r.kind = "Template" => C8_ValuesAndDefaults(r, doc.elems)

C8_Witness ==
    \E r \in Parsed :
        /\ r.kind = "AttributeError"
        /\ HeaderChecks(doc.elems) = "pass"
        /\ \E i \in Below(doc.elems) :
              doc.elems[i].tag = "signal" /\ BadElement(doc.elems[i])

\* ------------------------------------------------- binding: documents, actions

\* The elements below <interface><template class=... parent=...> of the
\* templates a class is registered with.
BindElems ==
    { El("object", ("class" :> "GtkButton") @@ ("id" :> "a")),
      El("object", ("class" :> "GtkLabel") @@ ("id" :> "a")),
      El("object", ("class" :> "GtkLabel") @@ ("id" :> "b") @@ ("name" :> "a")),
      El("object", ("class" :> "GtkButton") @@ ("name" :> "n")),
      El("menu", ("id" :> "m")),
      El("section", ("id" :> "a")),
      El("signal", ("name" :> "clicked") @@ ("handler" :> "h")),
      El("signal", ("name" :> "notify") @@ ("handler" :> "h")),
      El("closure", ("function" :> "h") @@ ("type" :> "gchararray")),
      El("closure", ("function" :> "g") @@ ("type" :> "gchararray")) }

BindDocs ==
    [decl : {TRUE},
     elems : {<<Interface, TemplateOk>> \o b : b \in BoundedSeq(BindElems, MaxLen)}]

NoKwargs ==
    [template_string |-> ABSENT, template_resource |-> ABSENT, template_path |-> ABSENT]

NoTemplateAttrs ==
    [template_string |-> None, template_resource |-> None, template_path |-> None]

\* class TemplateTest(Gtk.Widget, metaclass=TemplateMeta, template_string=doc)
DefineClass ==
    /\ cls.kind = "none"
    /\ cls' = create_class(NotRun, [NoKwargs EXCEPT !.template_string = "S1"],
                           NoTemplateAttrs, env.auto, env.class_attrs, env.Gtk_version)
    /\ UNCHANGED <<doc, tplS, tplB, env, inst, classes>>

\* TemplateTest(): the instance's init_template
Instantiate(built, base_ok) ==
    /\ cls.kind = "class"
    /\ inst' = init_template(cls, built, base_ok)
    /\ UNCHANGED <<doc, tplS, tplB, env, cls, classes>>

WidgetIds(class) ==
    IF class.kind = "class"
    THEN {class.widgets[i].value.id_ : i \in DOMAIN class.widgets}
    ELSE {}

InitBind ==
    /\ doc \in BindDocs
    /\ env \in [Gtk_version : {"4.0", "3.0"}, class_attrs : SUBSET {"h", "g"}, auto : {FALSE}]
    /\ tplS = NotRun
    /\ tplB = NotRun
    /\ cls = NotRun
    /\ inst = NotRun
    /\ classes = <<>>

NextBind ==
    \/ DefineClass
    \/ \E built \in SUBSET WidgetIds(cls), base_ok \in BOOLEAN : Instantiate(built, base_ok)

SpecBind == InitBind /\ [][NextBind]_vars

\* ------------------------------------------------------- binding: properties

\* The key an <object> is bound under: its name if present, otherwise its id.
BindingKey(e) ==
    IF Has(e, "name") /\ e.attrs["name"] # "" THEN e.attrs["name"]
    ELSE IF Has(e, "id") THEN e.attrs["id"]
    ELSE None

\* C4: a template with two <object> elements that resolve to the same binding
\* key (two with the same id included) never yields a registered class: the
\* class statement raises KeyError "Duplicate widget ID".
C4_DuplicateWidgetIdsDetected ==
    cls.kind # "none" =>
        ((\E i, j \in Below(doc.elems) :
              /\ i < j
              /\ doc.elems[i].tag = "object" /\ doc.elems[j].tag = "object"
              /\ BindingKey(doc.elems[i]) # None
              /\ BindingKey(doc.elems[i]) = BindingKey(doc.elems[j]))
          => /\ cls.kind # "class"
             /\ env.Gtk_version = "4.0" => cls = Error("KeyError", "Duplicate widget ID"))

\* C5: after init_template, every entry (key, element) of __template_widgets__
\* whose id the toolkit returns a child for has that child as the instance
\* attribute `key`, and an entry without a child sets no attribute.
C5_ChildrenBoundByKey ==
    inst.kind = "instance" =>
        \A i \in DOMAIN cls.widgets :
            LET key == cls.widgets[i].key
                id == cls.widgets[i].value.id_
            IN /\ id \in inst.built =>
                    (key \in DOMAIN inst.attrs /\ inst.attrs[key] = Child(id))
               /\ id \notin inst.built => key \notin DOMAIN inst.attrs

C5_Witness ==
    /\ inst.kind = "instance"
    /\ \E i \in DOMAIN cls.widgets :
          /\ cls.widgets[i].key # cls.widgets[i].value.id_
          /\ cls.widgets[i].value.id_ \in inst.built
    /\ \E i \in DOMAIN cls.widgets : cls.widgets[i].value.id_ \notin inst.built

\* The handler / function names of the <signal> and <closure> elements.
MethodNames(tree) ==
    {tree[i].attrs["handler"] : i \in {j \in Below(tree) : tree[j].tag = "signal"}}
    \cup {tree[i].attrs["function"] : i \in {j \in Below(tree) : tree[j].tag = "closure"}}

MinOf(S) == CHOOSE i \in S : \A j \in S : i <= j

\* The first element naming a method, in the order register_template visits
\* them: the signals in document order, then the closures.
FirstNaming(tree, m) ==
    LET sig == {i \in Below(tree) : tree[i].tag = "signal" /\ tree[i].attrs["handler"] = m}
        clo == {i \in Below(tree) : tree[i].tag = "closure" /\ tree[i].attrs["function"] = m}
    IN IF sig # {} THEN MinOf(sig) ELSE MinOf(clo)

\* C6: in a registered class every handler / function name of the template is
\* in __template_methods__ exactly when the class has an attribute of that
\* name, once, and bound to the first element that names it.
C6_MethodsBoundToFirstElement ==
    cls.kind = "class" =>
        \A m \in MethodNames(doc.elems) :
            /\ HasKey(cls.methods, m) <=> m \in env.class_attrs
            /\ Cardinality({i \in DOMAIN cls.methods : cls.methods[i].key = m}) <= 1
            /\ HasKey(cls.methods, m) =>
                  Lookup(cls.methods, m).element = FirstNaming(doc.elems, m)

\* ------------------------------------------------ class creation: actions

\* The keyword arguments and the class attributes a class statement may carry.
KwargsSet ==
    [template_string : {ABSENT, "", "S1"},
     template_resource : {ABSENT, "", "/r1", "r?"},
     template_path : {ABSENT, "", "p1"}]

TemplateAttrsSet ==
    [template_string : {None, "S0"},
     template_resource : {None, "/r0"},
     template_path : {None, "p0"}]

\* class A(Gtk.Widget, metaclass=TemplateMeta, **kwargs), its body setting the
\* class attributes `attrs`.  The entry holds the class, or the error the
\* class statement raised.
NewClass(kwargs, attrs) ==
    /\ "A" \notin DOMAIN classes
    /\ classes' = ("A" :> [class |-> create_class(NotRun, kwargs, attrs, env.auto,
                                                  env.class_attrs, env.Gtk_version),
                           kwargs |-> kwargs, attrs |-> attrs,
                           base |-> "Gtk.Widget"]) @@ classes
    /\ UNCHANGED <<doc, tplS, tplB, env, cls, inst>>

\* class B(A, **kwargs): B sees A's __template__ and A's class attributes.
NewSubclass(kwargs) ==
    /\ "A" \in DOMAIN classes
    /\ classes["A"].class.kind = "class"
    /\ "B" \notin DOMAIN classes
    /\ classes' = ("B" :> [class |-> create_class(classes["A"].class.template, kwargs,
                                                  classes["A"].attrs, env.auto,
                                                  env.class_attrs, env.Gtk_version),
                           kwargs |-> kwargs,
                           attrs |-> classes["A"].attrs, base |-> "A"]) @@ classes
    /\ UNCHANGED <<doc, tplS, tplB, env, cls, inst>>

\* The text of the template_string keyword in these class statements.
MetaDoc ==
    [decl |-> TRUE,
     elems |-> << Interface,
                  El("template", ("class" :> "S1") @@ ("parent" :> "GtkWidget")),
                  El("object", ("class" :> "GtkButton") @@ ("id" :> "test_button")) >>]

InitMeta ==
    /\ doc = MetaDoc
    /\ env \in [Gtk_version : {"4.0"}, class_attrs : {{}}, auto : BOOLEAN]
    /\ tplS = NotRun
    /\ tplB = NotRun
    /\ cls = NotRun
    /\ inst = NotRun
    /\ classes = <<>>

NextMeta ==
    \/ \E kwargs \in KwargsSet, attrs \in TemplateAttrsSet : NewClass(kwargs, attrs)
    \/ \E kwargs \in KwargsSet : NewSubclass(kwargs)

SpecMeta == InitMeta /\ [][NextMeta]_vars

\* --------------------------------------------- class creation: properties

\* t is the Template parsed from the text.
ParsedFrom(t, text) ==
    LET p == from_bytes(text) IN
    /\ p.kind = "Template"
    /\ t.class_name = p.class_name
    /\ t.parent_type = p.parent_type
    /\ t.signals = p.signals
    /\ t.closures = p.closures
    /\ Keys(t.children) = Keys(p.children)
    /\ t.menus = p.menus
    /\ t.template = p.template

Given(kwargs) == {k \in DOMAIN kwargs : kwargs[k] # ABSENT}

\* C3: a class created with one of the keywords template_string,
\* template_resource or template_path (its body setting none of the
\* __template_*__ attributes), a subclass of a templated class included, has
\* as __template__ the Template parsed from the source that keyword names.
C3_TemplateFromKeyword ==
    \A n \in DOMAIN classes :
        LET c == classes[n] IN
        (/\ c.class.kind = "class"
         /\ c.attrs = NoTemplateAttrs
         /\ \E k \in DOMAIN c.kwargs : Given(c.kwargs) = {k} /\ Truthy(c.kwargs[k]))
        => \E k \in Given(c.kwargs) : ParsedFrom(c.class.template, TextOf(c.kwargs[k]))

\* The value load_template reads for a source: the keyword, or the class
\* attribute when the keyword is absent.
ValueRead(c, k) == IF c.kwargs[k] # ABSENT THEN c.kwargs[k] ELSE c.attrs[k]

\* C9: the template of a created class comes from exactly one source, by
\* priority: a non-empty template_string, else template_resource, else
\* template_path, each read from the keyword or else the class attribute;
\* it is the auto-discovered file only when none of the three gives a value.
C9_SourcePriority ==
    \A n \in DOMAIN classes :
        LET c == classes[n]
            source == IF ValueRead(c, "template_string") \notin {None, ""}
                      THEN ValueRead(c, "template_string")
                      ELSE IF ValueRead(c, "template_resource") \notin {None, ""}
                      THEN ValueRead(c, "template_resource")
                      ELSE IF ValueRead(c, "template_path") \notin {None, ""}
                      THEN ValueRead(c, "template_path")
                      ELSE "auto"
        IN c.class.kind = "class" =>
              /\ source # "auto" => ParsedFrom(c.class.template, TextOf(source))
              /\ ParsedFrom(c.class.template, TextOf("auto")) => source = "auto"

====
